---- MODULE Spec2Model ----
(***************************************************************************)
(* A model of ioregistry_explorer (src/main.rs): the UI thread (MyApp and  *)
(* its per-frame update), the worker task spawned on the tokio runtime,    *)
(* and the two unbounded channels between them.                            *)
(*                                                                         *)
(* Option<T> is modelled as a sequence of length at most one: <<>> is None *)
(* and <<x>> is Some(x).  A HashMap is a function from its key set.        *)
(***************************************************************************)
EXTENDS Integers, Sequences, FiniteSets, TLC

\* ------------------------------------------------------------------ bounds

\* The number of Commands sent on the command channel in one run.
MaxCmds == 4

\* ---------------------------------------------------------------- universe

None == <<>>
Some(x) == <<x>>

\* The usbmuxd device handles (UsbmuxdDevice) of the attached devices.
Devices == {"devA", "devB"}

\* The names a device may report in its DeviceName property: devB may have
\* been given the name of devA.
DeviceNames == {"iPhone", "iPad"}
NamesOf(dev) == IF dev = "devA" THEN {"iPhone"} ELSE {"iPhone", "iPad"}

\* What the user may type in the three filter fields.
PlaneValues == {"", "IOPower"}
EntryValues == {"", "Root"}
ClassValues == {"", "IOService"}

\* Where the file dialog may point.
SavePath == "ioreg.plist"

\* plist::Value: a string, or a value of another type.
Str(s) == [type |-> "String", val |-> s]
NotStr == [type |-> "Integer", val |-> "0"]

\* The property sets lockdown's get_all_values may return for a device: with
\* a name, or with a DeviceName that is no string and no other known key.
LockdownValueSets(dev) ==
    {[k \in {"DeviceName", "ProductType", "UniqueDeviceID"} |->
        CASE k = "DeviceName" -> Str(n)
          [] k = "ProductType" -> Str("iPhone15,2")
          [] OTHER -> Str(dev)] : n \in NamesOf(dev)}
    \cup {[k \in {"DeviceName", "BuildVersion"} |-> NotStr]}

Range(s) == {s[i] : i \in DOMAIN s}

\* The device lists usbmuxd's get_devices may return: every sequence of
\* distinct devices.
RECURSIVE DeviceListsOver(_)
DeviceListsOver(S) ==
    {<<>>} \cup UNION {{<<d>> \o rest : rest \in DeviceListsOver(S \ {d})} : d \in S}

DeviceLists == DeviceListsOver(Devices)

\* The registry document a device returns for a query.
RegistryDoc(dev, plane, entry, class) ==
    [dev |-> dev, plane |-> plane, entry |-> entry, class |-> class]

EmptyMap == [x \in {} |-> None]

\* HashMap::insert: a key already present is overwritten.
MapInsert(m, k, v) == [x \in DOMAIN m \cup {k} |-> IF x = k THEN v ELSE m[x]]

\* ---------------------------------------------------------------- messages

\* enum IdeviceCommands.  id is the position of the command in the order of
\* enqueueing (history, not program state).
GetDevicesCmd(id) ==
    [id |-> id, kind |-> "GetDevices", dev |-> None,
     plane |-> None, entry |-> None, class |-> None]

GetDeviceInfoCmd(id, dev) ==
    [id |-> id, kind |-> "GetDeviceInfo", dev |-> Some(dev),
     plane |-> None, entry |-> None, class |-> None]

IORegistsryCmd(id, dev, plane, entry, class) ==
    [id |-> id, kind |-> "IORegistsry", dev |-> Some(dev),
     plane |-> plane, entry |-> entry, class |-> class]

\* enum GuiCommands.  id is the id of the command that produced the result
\* (history, not program state).
NoUsbmuxdMsg(id) == [id |-> id, kind |-> "NoUsbmuxd", payload |-> None]
GetDevicesFailureMsg(id) == [id |-> id, kind |-> "GetDevicesFailure", payload |-> None]
DevicesMsg(id, selections) == [id |-> id, kind |-> "Devices", payload |-> Some(selections)]
DeviceInfoMsg(id, info) == [id |-> id, kind |-> "DeviceInfo", payload |-> Some(info)]
IORegistryMsg(id, res) == [id |-> id, kind |-> "IORegistry", payload |-> res]

\* UnboundedSender::send on an open channel.
SendFront(q, m) == <<m>> \o q
ChanSend(q, m) == Append(q, m)

\* ------------------------------------------------------------------- state

VARIABLES
    app,        \* the MyApp struct
    uiStatus,   \* "running", or the panic message once update has panicked
    cmdQ,       \* the command channel (idevice_sender -> idevice_receiver)
    resQ,       \* the result channel (gui_sender -> gui_recv)
    wk,         \* the worker task: its position and the command it executes
    file,       \* the file at SavePath
    inflight,   \* ids of the commands dequeued and not yet finished (history)
    hist,       \* kind and device of the commands sent so far, in order (history)
    recvLog     \* the results the UI has received, in order (history)

vars == <<app, uiStatus, cmdQ, resQ, wk, file, inflight, hist, recvLog>>

\* The file at SavePath: absent, truncated by a write that failed, or written.
NoFile == [exists |-> FALSE, text |-> None]
TruncatedFile == [exists |-> TRUE, text |-> None]
WrittenFile(text) == [exists |-> TRUE, text |-> Some(text)]

NoCmd == GetDevicesCmd(0)

\* The entry of hist for a command.
Sent(cmd) == [kind |-> cmd.kind, dev |-> cmd.dev]

\* The entry of recvLog for a result received when n commands had been sent:
\* late marks a DeviceInfo result received after a later command was sent.
Received(msg, n) ==
    [id |-> msg.id, late |-> msg.kind = "DeviceInfo" /\ n > msg.id]

\* The worker waiting in idevice_receiver.recv().
IdleWorker == [pc |-> "idle", cmd |-> NoCmd]

\* main, up to the spawn of the worker and run_native.
InitStartsWithInfo ==
    /\ app = [devices |-> None,
              devices_placeholder |-> "Loading...",
              selected_device |-> "",
              device_info |-> None,
              current_ioregistry |-> None,
              save_error |-> None,
              plane |-> "",
              entry |-> "",
              class |-> ""]
    /\ uiStatus = "running"
    /\ cmdQ = <<GetDeviceInfoCmd(1, "devA")>>
    /\ resQ = <<>>
    /\ wk = IdleWorker
    /\ file = NoFile
    /\ inflight = {}
    /\ hist = <<Sent(GetDeviceInfoCmd(1, "devA"))>>
    /\ recvLog = <<>>
Init ==
    /\ app = [devices |-> None,
              devices_placeholder |-> "Loading...",
              selected_device |-> "",
              device_info |-> None,
              current_ioregistry |-> None,
              save_error |-> None,
              plane |-> "",
              entry |-> "",
              class |-> ""]
    /\ uiStatus = "running"
    /\ cmdQ = <<GetDevicesCmd(1)>>
    /\ resQ = <<>>
    /\ wk = IdleWorker
    /\ file = NoFile
    /\ inflight = {}
    /\ hist = <<Sent(GetDevicesCmd(1))>>
    /\ recvLog = <<>>

\* ------------------------------------------------------------ worker task

\* gui_recv lives in MyApp: it is dropped when the UI thread unwinds.
GuiRecvOpen == uiStatus = "running"

\* idevice_receiver and gui_sender live in the worker task: they are dropped
\* when the task ends.
WorkerAlive == wk.pc \notin {"panicked", "exited"}

\* The holders of a sender of the command channel: main keeps its
\* idevice_sender until it returns, MyApp holds a clone.
Senders == IF uiStatus = "running" THEN {"main", "app"} ELSE {"main"}

\* The worker after a match arm has run to its end or hit `continue`: back
\* at the head of the `while let` loop.
AfterCommandStopsOnError(msgs) ==
    IF Len(msgs) = 0 THEN [IdleWorker EXCEPT !.pc = "exited"] ELSE IdleWorker
AfterCommand(msgs) == IdleWorker

RECURSIVE SendAll(_, _)
SendAll(q, msgs) ==
    IF Len(msgs) = 0 THEN q ELSE SendAll(ChanSend(q, Head(msgs)), Tail(msgs))

\* The execution of a command, given the results it emits: they are sent
\* with send(..).unwrap(), which panics the task when gui_recv has been
\* dropped.
Complete(msgs) ==
    /\ IF Len(msgs) > 0 /\ ~GuiRecvOpen
       THEN /\ wk' = [wk EXCEPT !.pc = "panicked"]
            /\ UNCHANGED <<resQ, inflight>>
       ELSE /\ resQ' = SendAll(resQ, msgs)
            /\ wk' = AfterCommand(msgs)
            /\ inflight' = inflight \ {wk.cmd.id}
    /\ UNCHANGED <<app, uiStatus, cmdQ, file, hist, recvLog>>

\* The worker takes a command only at the head of its loop.
RecvWhileBusy == WorkerAlive
CanRecv == wk.pc = "idle"

\* UnboundedReceiver::recv on a channel that is not empty: the oldest message
\* and the channel after it.
DequeueNewest(q) == [msg |-> q[Len(q)], rest |-> SubSeq(q, 1, Len(q) - 1)]
DequeueSkipsNext(q) ==
    [msg |-> Head(q), rest |-> IF Len(q) > 1 THEN Tail(Tail(q)) ELSE <<>>]
Dequeue(q) == [msg |-> Head(q), rest |-> Tail(q)]

\* while let Some(command) = idevice_receiver.recv().await
WorkerRecv ==
    /\ CanRecv
    /\ IF Len(cmdQ) > 0
       THEN /\ wk' = [pc |-> "exec", cmd |-> Dequeue(cmdQ).msg]
            /\ cmdQ' = Dequeue(cmdQ).rest
            /\ inflight' = inflight \cup {Dequeue(cmdQ).msg.id}
       ELSE \* recv() yields None only when every sender has been dropped
            /\ Senders = {}
            /\ wk' = [wk EXCEPT !.pc = "exited"]
            /\ UNCHANGED <<cmdQ, inflight>>
    /\ UNCHANGED <<app, uiStatus, resQ, file, hist, recvLog>>


\* What one handshake with a device can come to: LockdownClient::connect
\* fails, get_all_values fails, or the property set is returned.
Handshakes(dev) ==
    {[status |-> "connect_failed", values |-> EmptyMap],
     [status |-> "fetch_failed", values |-> EmptyMap]}
    \cup {[status |-> "ok", values |-> v] : v \in LockdownValueSets(dev)}

\* The handshakes of an enumeration: one for each device of the list.
HandshakeChoices(devs) ==
    {hs \in [Range(devs) -> UNION {Handshakes(d) : d \in Range(devs)}] :
        \A d \in Range(devs) : hs[d] \in Handshakes(d)}

\* What an enumeration can meet: usbmuxd unreachable, get_devices failing,
\* or a device list and the handshakes with its devices.
GetDevicesOutcomes ==
    {[status |-> "no_usbmuxd", devs |-> <<>>, hs |-> EmptyMap],
     [status |-> "list_failed", devs |-> <<>>, hs |-> EmptyMap]}
    \cup UNION {{[status |-> "ok", devs |-> devs, hs |-> hs] :
                    hs \in HandshakeChoices(devs)} : devs \in DeviceLists}

\* values.get("DeviceName") is Some(plist::Value::String(n))
HasName(h) ==
    /\ h.status = "ok"
    /\ "DeviceName" \in DOMAIN h.values
    /\ h.values["DeviceName"].type = "String"

\* One iteration of `for dev in devs`: the roster after it.
RosterAfterKeepsUnnamed(selections, dev, h) ==
    IF h.status = "ok"
    THEN MapInsert(selections,
                   IF HasName(h) THEN h.values["DeviceName"].val ELSE "",
                   dev)
    ELSE selections
RosterAfter(selections, dev, h) ==
    IF HasName(h)
    THEN MapInsert(selections, h.values["DeviceName"].val, dev)
    ELSE selections

\* The loop `for dev in devs`, from the roster built so far.
RECURSIVE RosterFrom(_, _, _)
RosterFrom(selections, devs, hs) ==
    IF Len(devs) = 0 THEN selections
    ELSE RosterFrom(RosterAfter(selections, Head(devs), hs[Head(devs)]),
                    Tail(devs), hs)

\* What the GetDevices arm emits.
GetDevicesResultsSilentOnListError(id, out) ==
    CASE out.status = "no_usbmuxd" -> <<NoUsbmuxdMsg(id)>>
      [] out.status = "list_failed" -> <<>>
      [] OTHER -> <<DevicesMsg(id, RosterFrom(EmptyMap, out.devs, out.hs))>>
GetDevicesResults(id, out) ==
    CASE out.status = "no_usbmuxd" -> <<NoUsbmuxdMsg(id)>>
      [] out.status = "list_failed" -> <<GetDevicesFailureMsg(id)>>
      [] OTHER -> <<DevicesMsg(id, RosterFrom(EmptyMap, out.devs, out.hs))>>

\* The GetDevices arm, meeting out.
ExecGetDevicesWith(out) ==
    /\ wk.pc = "exec" /\ wk.cmd.kind = "GetDevices"
    /\ Complete(GetDevicesResults(wk.cmd.id, out))

ExecGetDevices == \E out \in GetDevicesOutcomes : ExecGetDevicesWith(out)

\* What a registry query can meet: DiagnosticsRelayClient::connect fails,
\* ioregistry fails, or it returns the document of the query or no document.
RegistryOutcomes(c) ==
    {[status |-> "connect_failed", res |-> None],
     [status |-> "query_failed", res |-> None],
     [status |-> "ok", res |-> None],
     [status |-> "ok", res |-> Some(RegistryDoc(c.dev[1], c.plane, c.entry, c.class))]}

\* What the IORegistsry arm emits: nothing when the connection or the query
\* failed, the returned Option otherwise.
RegistryResultsNoneOnError(id, out) == <<IORegistryMsg(id, out.res)>>
RegistryResults(id, out) ==
    IF out.status = "ok" THEN <<IORegistryMsg(id, out.res)>> ELSE <<>>

\* The IORegistsry arm, meeting out.
ExecIORegistsryWith(out) ==
    /\ wk.pc = "exec" /\ wk.cmd.kind = "IORegistsry"
    /\ out \in RegistryOutcomes(wk.cmd)
    /\ Complete(RegistryResults(wk.cmd.id, out))

ExecIORegistsry ==
    /\ wk.pc = "exec" /\ wk.cmd.kind = "IORegistsry"
    /\ \E out \in RegistryOutcomes(wk.cmd) : ExecIORegistsryWith(out)

\* The fields of the Device Info panel: (display name, lockdown key).
Fields ==
    << <<"Device Name", "DeviceName">>,
       <<"Model", "ProductType">>,
       <<"iOS Version", "ProductVersion">>,
       <<"Build Number", "BuildVersion">>,
       <<"UDID", "UniqueDeviceID">> >>

\* The device_info vector built from a property set.
BuildInfoInDeviceOrder(values) ==
    LET Present(f) == /\ f[2] \in DOMAIN values
                      /\ values[f[2]].type = "String"
        shuffled == <<Fields[5], Fields[1], Fields[4], Fields[2], Fields[3]>>
        kept == SelectSeq(shuffled, Present)
    IN  [i \in 1..Len(kept) |-> <<kept[i][1], values[kept[i][2]].val>>]
BuildInfo(values) ==
    LET Present(f) == /\ f[2] \in DOMAIN values
                      /\ values[f[2]].type = "String"
        kept == SelectSeq(Fields, Present)
    IN  [i \in 1..Len(kept) |-> <<kept[i][1], values[kept[i][2]].val>>]

\* What the GetDeviceInfo arm emits: nothing when the connection or the
\* fetch failed, the device info otherwise.
DeviceInfoResultsEmptyOnError(id, h) ==
    IF h.status = "ok" THEN <<DeviceInfoMsg(id, BuildInfo(h.values))>>
    ELSE <<DeviceInfoMsg(id, <<>>)>>
DeviceInfoResults(id, h) ==
    IF h.status = "ok" THEN <<DeviceInfoMsg(id, BuildInfo(h.values))>> ELSE <<>>

\* The GetDeviceInfo arm, meeting handshake h.
ExecGetDeviceInfoWith(h) ==
    /\ wk.pc = "exec" /\ wk.cmd.kind = "GetDeviceInfo"
    /\ h \in Handshakes(wk.cmd.dev[1])
    /\ Complete(DeviceInfoResults(wk.cmd.id, h))

ExecGetDeviceInfo ==
    /\ wk.pc = "exec" /\ wk.cmd.kind = "GetDeviceInfo"
    /\ \E h \in Handshakes(wk.cmd.dev[1]) : ExecGetDeviceInfoWith(h)

Worker ==
    \/ WorkerRecv
    \/ ExecGetDevices
    \/ ExecIORegistsry
    \/ ExecGetDeviceInfo


\* ---------------------------------------------------------------- UI thread

\* The texts update formats into devices_placeholder.
NoUsbmuxdText == "Failed to connect to usbmuxd!"
GetDevicesFailureText == "Failed to get list of connected devices from usbmuxd!"

\* The panic messages of the UI thread.
PanicDisconnected == "idevice crashed"
PanicSendFailed == "unwrap on Err: send failed"
PanicSaveNone == "unwrap on None: current_ioregistry"

\* match msg { .. }: the MyApp after a result has been applied.
ApplyResultMergesRoster(a, msg) ==
    CASE msg.kind = "NoUsbmuxd" -> [a EXCEPT !.devices_placeholder = NoUsbmuxdText]
      [] msg.kind = "Devices" ->
            [a EXCEPT !.devices =
                IF Len(a.devices) = 0 THEN msg.payload
                ELSE Some([n \in DOMAIN a.devices[1] \cup DOMAIN msg.payload[1] |->
                            IF n \in DOMAIN msg.payload[1]
                            THEN msg.payload[1][n] ELSE a.devices[1][n]])]
      [] msg.kind = "DeviceInfo" -> [a EXCEPT !.device_info = msg.payload]
      [] msg.kind = "GetDevicesFailure" ->
            [a EXCEPT !.devices_placeholder = GetDevicesFailureText]
      [] msg.kind = "IORegistry" -> [a EXCEPT !.current_ioregistry = msg.payload]
ApplyResultKeepsSnapshot(a, msg) ==
    CASE msg.kind = "NoUsbmuxd" -> [a EXCEPT !.devices_placeholder = NoUsbmuxdText]
      [] msg.kind = "Devices" -> [a EXCEPT !.devices = msg.payload]
      [] msg.kind = "DeviceInfo" -> [a EXCEPT !.device_info = msg.payload]
      [] msg.kind = "GetDevicesFailure" ->
            [a EXCEPT !.devices_placeholder = GetDevicesFailureText]
      [] msg.kind = "IORegistry" ->
            IF Len(a.current_ioregistry) = 0
            THEN [a EXCEPT !.current_ioregistry = msg.payload]
            ELSE a
ApplyResultClearsRosterOnFailure(a, msg) ==
    CASE msg.kind = "NoUsbmuxd" ->
            [a EXCEPT !.devices_placeholder = NoUsbmuxdText, !.devices = None]
      [] msg.kind = "Devices" -> [a EXCEPT !.devices = msg.payload]
      [] msg.kind = "DeviceInfo" -> [a EXCEPT !.device_info = msg.payload]
      [] msg.kind = "GetDevicesFailure" ->
            [a EXCEPT !.devices_placeholder = GetDevicesFailureText, !.devices = None]
      [] msg.kind = "IORegistry" -> [a EXCEPT !.current_ioregistry = msg.payload]
ApplyResultKeepsInfo(a, msg) ==
    CASE msg.kind = "NoUsbmuxd" -> [a EXCEPT !.devices_placeholder = NoUsbmuxdText]
      [] msg.kind = "Devices" -> [a EXCEPT !.devices = msg.payload]
      [] msg.kind = "DeviceInfo" ->
            IF Len(a.device_info) = 0
            THEN [a EXCEPT !.device_info = msg.payload]
            ELSE a
      [] msg.kind = "GetDevicesFailure" ->
            [a EXCEPT !.devices_placeholder = GetDevicesFailureText]
      [] msg.kind = "IORegistry" -> [a EXCEPT !.current_ioregistry = msg.payload]
ApplyResult(a, msg) ==
    CASE msg.kind = "NoUsbmuxd" -> [a EXCEPT !.devices_placeholder = NoUsbmuxdText]
      [] msg.kind = "Devices" -> [a EXCEPT !.devices = msg.payload]
      [] msg.kind = "DeviceInfo" -> [a EXCEPT !.device_info = msg.payload]
      [] msg.kind = "GetDevicesFailure" ->
            [a EXCEPT !.devices_placeholder = GetDevicesFailureText]
      [] msg.kind = "IORegistry" -> [a EXCEPT !.current_ioregistry = msg.payload]

\* self.gui_recv.try_recv() is Err(Disconnected): the channel is empty and
\* the worker task, which owns gui_sender, has ended.
PollDisconnectedIgnoresQueue == ~WorkerAlive
PollDisconnected == Len(resQ) = 0 /\ ~WorkerAlive

\* The MyApp after the poll at the head of update.
Polled == IF Len(resQ) > 0 THEN ApplyResult(app, Head(resQ)) ELSE app

\* What the poll does to the result channel: try_recv takes the oldest
\* result, if there is one.
PollChannelDrainsAll ==
    /\ resQ' = <<>>
    /\ recvLog' = IF Len(resQ) > 0
                  THEN Append(recvLog, Received(Head(resQ), Len(hist)))
                  ELSE recvLog
PollChannel ==
    /\ resQ' = IF Len(resQ) > 0 THEN Tail(resQ) ELSE resQ
    /\ recvLog' = IF Len(resQ) > 0
                  THEN Append(recvLog, Received(Head(resQ), Len(hist)))
                  ELSE recvLog

\* self.idevice_sender.send(cmd).unwrap(), the last effect of an input
\* handler; a is the MyApp the handler has reached.
Enqueue(cmd, a) ==
    /\ app' = a
    /\ IF WorkerAlive
       THEN /\ cmdQ' = ChanSend(cmdQ, cmd)
            /\ hist' = Append(hist, Sent(cmd))
            /\ UNCHANGED uiStatus
       ELSE /\ uiStatus' = PanicSendFailed
            /\ UNCHANGED <<cmdQ, hist>>

\* A frame without input: the poll only.
UpdateIdle ==
    /\ uiStatus = "running"
    /\ PollChannel
    /\ IF PollDisconnected
       THEN uiStatus' = PanicDisconnected /\ UNCHANGED app
       ELSE app' = Polled /\ UNCHANGED uiStatus
    /\ UNCHANGED <<cmdQ, wk, file, inflight, hist>>

\* match &self.devices { .. }: what the device panel shows.
DevicePanel(a) ==
    IF Len(a.devices) = 0
    THEN [shows |-> "placeholder", text |-> a.devices_placeholder]
    ELSE IF DOMAIN a.devices[1] = {}
         THEN [shows |-> "roster", text |-> "No devices connected! Plug one in via USB."]
         ELSE [shows |-> "roster", text |-> "Choose a device"]

\* match &self.devices { Some(devs) => .. }
RosterShown(a) == Len(a.devices) > 0

\* A frame in which the user clicks a device of the combo box.
SelectDeviceKeepsInfo(name) ==
    /\ uiStatus = "running" /\ ~PollDisconnected
    /\ Len(hist) < MaxCmds
    /\ RosterShown(Polled)
    /\ name \in DOMAIN Polled.devices[1]
    /\ PollChannel
    /\ Enqueue(GetDeviceInfoCmd(Len(hist) + 1, Polled.devices[1][name]),
               [Polled EXCEPT !.selected_device = name])
    /\ UNCHANGED <<wk, file, inflight>>
SelectDevice(name) ==
    /\ uiStatus = "running" /\ ~PollDisconnected
    /\ Len(hist) < MaxCmds
    /\ RosterShown(Polled)
    /\ name \in DOMAIN Polled.devices[1]
    /\ PollChannel
    /\ Enqueue(GetDeviceInfoCmd(Len(hist) + 1, Polled.devices[1][name]),
               [Polled EXCEPT !.selected_device = name, !.device_info = None])
    /\ UNCHANGED <<wk, file, inflight>>

\* A frame in which the user clicks "Refresh...".
RefreshWithoutRoster ==
    /\ uiStatus = "running" /\ ~PollDisconnected
    /\ Len(hist) < MaxCmds
    /\ PollChannel
    /\ Enqueue(GetDevicesCmd(Len(hist) + 1), Polled)
    /\ UNCHANGED <<wk, file, inflight>>
Refresh ==
    /\ uiStatus = "running" /\ ~PollDisconnected
    /\ Len(hist) < MaxCmds
    /\ RosterShown(Polled)
    /\ PollChannel
    /\ Enqueue(GetDevicesCmd(Len(hist) + 1), Polled)
    /\ UNCHANGED <<wk, file, inflight>>

\* if let Some(dev) = self.devices.as_ref().and_then(|x| x.get(&self.selected_device))
FilterPanelShown(a) ==
    /\ Len(a.devices) > 0
    /\ a.selected_device \in DOMAIN a.devices[1]

\* if s.is_empty() { None } else { Some(s.clone()) }
OptStringKeepsEmpty(s) == Some(s)
OptString(s) == IF s = "" THEN None ELSE Some(s)

\* The command the three filter fields send when their text has changed.
FilterCommandOfAnyDevice(id, a) ==
    IORegistsryCmd(id, a.devices[1][CHOOSE n \in DOMAIN a.devices[1] : TRUE],
                   OptString(a.plane), OptString(a.entry), OptString(a.class))
FilterCommand(id, a) ==
    IORegistsryCmd(id, a.devices[1][a.selected_device],
                   OptString(a.plane), OptString(a.entry), OptString(a.class))

\* A frame in which the user changes the text of the plane field to v.
EditPlane(v) ==
    /\ uiStatus = "running" /\ ~PollDisconnected
    /\ Len(hist) < MaxCmds
    /\ FilterPanelShown(Polled)
    /\ v # Polled.plane
    /\ PollChannel
    /\ LET a == [Polled EXCEPT !.plane = v]
       IN  Enqueue(FilterCommand(Len(hist) + 1, a), a)
    /\ UNCHANGED <<wk, file, inflight>>

\* A frame in which the user changes the text of the entry field to v.
EditEntry(v) ==
    /\ uiStatus = "running" /\ ~PollDisconnected
    /\ Len(hist) < MaxCmds
    /\ FilterPanelShown(Polled)
    /\ v # Polled.entry
    /\ PollChannel
    /\ LET a == [Polled EXCEPT !.entry = v]
       IN  Enqueue(FilterCommand(Len(hist) + 1, a), a)
    /\ UNCHANGED <<wk, file, inflight>>

\* A frame in which the user changes the text of the class field to v.
EditClass(v) ==
    /\ uiStatus = "running" /\ ~PollDisconnected
    /\ Len(hist) < MaxCmds
    /\ FilterPanelShown(Polled)
    /\ v # Polled.class
    /\ PollChannel
    /\ LET a == [Polled EXCEPT !.class = v]
       IN  Enqueue(FilterCommand(Len(hist) + 1, a), a)
    /\ UNCHANGED <<wk, file, inflight>>

\* idevice::pretty_print_dictionary: the text of a document.
PrettyPrint(doc) == [text |-> doc]

\* A frame in which the user clicks "Save to File"; choice is what the file
\* dialog returns.
SaveToFile(choice) ==
    /\ uiStatus = "running" /\ ~PollDisconnected
    /\ FilterPanelShown(Polled)
    /\ PollChannel
    /\ IF Len(choice) = 0
       THEN app' = Polled /\ UNCHANGED <<uiStatus, file>>
       ELSE LET a == [Polled EXCEPT !.save_error = None] IN
            IF Len(a.current_ioregistry) = 0
            THEN \* self.current_ioregistry.clone().unwrap() panics before
                 \* std::fs::write is called
                 /\ app' = a
                 /\ uiStatus' = PanicSaveNone
                 /\ UNCHANGED file
            ELSE \/ /\ file' = WrittenFile(PrettyPrint(a.current_ioregistry[1]))
                    /\ app' = a
                    /\ UNCHANGED uiStatus
                 \/ \* std::fs::write fails: before the file is created or
                    \* truncated, or after
                    /\ file' \in {file, TruncatedFile}
                    /\ app' = [a EXCEPT !.save_error = Some("io error")]
                    /\ UNCHANGED uiStatus
    /\ UNCHANGED <<cmdQ, wk, inflight, hist>>

UI ==
    \/ UpdateIdle
    \/ \E name \in DeviceNames : SelectDevice(name)
    \/ Refresh
    \/ \E v \in PlaneValues : EditPlane(v)
    \/ \E v \in EntryValues : EditEntry(v)
    \/ \E v \in ClassValues : EditClass(v)
    \/ \E choice \in {None, Some(SavePath)} : SaveToFile(choice)

Next == Worker \/ UI

Spec == Init /\ [][Next]_vars



\* The worker task ends while the UI runs. No statement of the task's own
\* code does that (its only panics are the send(..).unwrap() calls, which
\* fail after gui_recv is dropped); it takes a panic inside one of the
\* device calls the task awaits. The task then drops gui_sender and
\* idevice_receiver, and the results already sent stay in the channel.
WorkerCrash ==
    /\ wk.pc = "exec"
    /\ wk' = [wk EXCEPT !.pc = "panicked"]
    /\ UNCHANGED <<app, uiStatus, cmdQ, resQ, file, inflight, hist, recvLog>>

NextCrash == Next \/ WorkerCrash

\* The program with a worker that may end in the middle of a command.
SpecCrash == Init /\ [][NextCrash]_vars

\* The program with a worker task that the runtime keeps scheduling and
\* whose awaited device calls all return.
SpecLive == Spec /\ WF_vars(Worker)

\* ------------------------------------------- device info of any property set

\* A key lockdown leaves out of the dictionary it returns.
Absent == [type |-> "Absent", val |-> ""]

\* The keys of the dictionaries get_all_values returns here, in the two
\* orders a device sends them in: neither is the order of Fields.
DeviceKeyOrders ==
    {<<"UniqueDeviceID", "SerialNumber", "BuildVersion", "DeviceName",
       "ProductVersion", "ProductType">>,
     <<"ProductType", "ProductVersion", "DeviceName", "BuildVersion",
       "SerialNumber", "UniqueDeviceID">>}

\* What a device holds under each key: a string, a value of another type,
\* or nothing.
PropertyChoices ==
    {[k \in {"DeviceName", "ProductType", "ProductVersion", "BuildVersion",
             "UniqueDeviceID", "SerialNumber"} |->
        CASE k = "DeviceName" -> n
          [] k = "ProductType" -> t
          [] k = "ProductVersion" -> v
          [] k = "BuildVersion" -> b
          [] k = "UniqueDeviceID" -> u
          [] OTHER -> Str("F2LXK0")] :
        n \in {Absent, NotStr, Str("iPhone"), Str("iPad")},
        t \in {Absent, NotStr, Str("iPhone15,2")},
        v \in {Absent, NotStr, Str("17.4")},
        b \in {Absent, NotStr, Str("21E219")},
        u \in {Absent, NotStr, Str("devA"), Str("devB")}}

\* plist::Dictionary keeps its entries in the order they were inserted: the
\* dictionaries get_all_values may return, as lists of (key, value).
PropertyLists ==
    {LET keys == SelectSeq(order, LAMBDA k : c[k] # Absent)
     IN  [i \in 1..Len(keys) |-> <<keys[i], c[keys[i]]>>] :
        order \in DeviceKeyOrders, c \in PropertyChoices}

\* values.get(key) on such a dictionary: the lookup by key.
DictOf(pl) ==
    [k \in {pl[i][1] : i \in DOMAIN pl} |->
        pl[CHOOSE i \in DOMAIN pl : pl[i][1] = k][2]]

\* The GetDeviceInfo arm, when connect and get_all_values succeed and the
\* device returns the dictionary pl.
ExecGetDeviceInfoOn(pl) ==
    /\ wk.pc = "exec" /\ wk.cmd.kind = "GetDeviceInfo"
    /\ Complete(DeviceInfoResults(wk.cmd.id, [status |-> "ok", values |-> DictOf(pl)]))

\* The roster has been applied, iPhone was clicked and the worker has taken
\* the GetDeviceInfo of devA.
InitInfo ==
    /\ app = [devices |-> Some(MapInsert(EmptyMap, "iPhone", "devA")),
              devices_placeholder |-> "Loading...",
              selected_device |-> "iPhone",
              device_info |-> None,
              current_ioregistry |-> None,
              save_error |-> None,
              plane |-> "",
              entry |-> "",
              class |-> ""]
    /\ uiStatus = "running"
    /\ cmdQ = <<>>
    /\ resQ = <<>>
    /\ wk = [pc |-> "exec", cmd |-> GetDeviceInfoCmd(2, "devA")]
    /\ file = NoFile
    /\ inflight = {2}
    /\ hist = <<Sent(GetDevicesCmd(1)), Sent(GetDeviceInfoCmd(2, "devA"))>>
    /\ recvLog = <<Received(DevicesMsg(1, EmptyMap), 1)>>

NextInfo ==
    \/ \E pl \in PropertyLists : ExecGetDeviceInfoOn(pl)
    \/ UpdateIdle

\* The execution of one GetDeviceInfo on every dictionary of PropertyLists.
SpecInfo == InitInfo /\ [][NextInfo]_vars

\* ------------------------------------------------------------------ claims

\* The ids of the commands whose results the UI has received, then of those
\* whose results wait in the result channel.
ResultIds ==
    [i \in 1..Len(recvLog) |-> recvLog[i].id] \o [i \in 1..Len(resQ) |-> resQ[i].id]

\* Command k has been dequeued and its execution has ended.
Executed(k) ==
    /\ k \in 1..Len(hist)
    /\ \A i \in 1..Len(cmdQ) : cmdQ[i].id # k
    /\ k \notin inflight

\* Command k has emitted a result.
HasResult(k) == \E i \in 1..Len(ResultIds) : ResultIds[i] = k

\* C1: the results the UI receives, and those still in the result channel
\* behind them, are in the order in which their commands were enqueued.
C1_ResultsInCommandOrder ==
    \A i, j \in 1..Len(ResultIds) : i < j => ResultIds[i] < ResultIds[j]

\* Two results received and a third waiting, of three commands that were
\* all in flight together.
C1_Witness ==
    /\ Len(recvLog) >= 2
    /\ Len(resQ) >= 1
    /\ \E i \in 1..Len(recvLog) : recvLog[i].late


\* The kinds of result an enumeration may emit.
EnumerationKinds == {"Devices", "GetDevicesFailure", "NoUsbmuxd"}

\* C2: a step in which the worker ends the execution of a GetDevices command
\* adds exactly one result to the result channel, the result is of that
\* command and it is Devices, GetDevicesFailure or NoUsbmuxd.
C2_EnumerateEmitsExactlyOne ==
    [][(wk.pc = "exec" /\ wk.cmd.kind = "GetDevices" /\ wk'.pc = "idle")
        => /\ Len(resQ') = Len(resQ) + 1
           /\ SubSeq(resQ', 1, Len(resQ)) = resQ
           /\ resQ'[Len(resQ')].id = wk.cmd.id
           /\ resQ'[Len(resQ')].kind \in EnumerationKinds]_vars

\* Three enumerations have been executed: the results of two of them, one a
\* roster and one a failure, wait behind the received result of the first.
C2_Witness ==
    /\ Len(recvLog) = 1
    /\ Len(resQ) = 2
    /\ resQ[1].kind = "Devices"
    /\ resQ[2].kind \in {"GetDevicesFailure", "NoUsbmuxd"}
    /\ Executed(3)
    /\ \A k \in 1..3 : hist[k].kind = "GetDevices"

\* C3: at most one command is being executed; while one is, every command
\* still queued was enqueued after it and every result emitted so far is of
\* a command enqueued before it.
C3_AtMostOneExecuting ==
    /\ Cardinality(inflight) <= 1
    /\ wk.pc = "exec" => inflight = {wk.cmd.id}
    /\ wk.pc = "idle" => inflight = {}
    /\ \A k \in inflight :
        /\ \A i \in 1..Len(cmdQ) : cmdQ[i].id > k
        /\ \A i \in 1..Len(ResultIds) : ResultIds[i] < k

\* The worker executes a command while the UI has enqueued two more.
C3_Witness ==
    /\ wk.pc = "exec"
    /\ Len(cmdQ) >= 2
    /\ uiStatus = "running"

\* C4: the worker is at the head of its loop or executing a command unless
\* a send on the result channel has failed (gui_recv is dropped) or the
\* command channel is closed (no sender is left); at the head of its loop it
\* can take the next command.
C4_WorkerSurvivesFailures ==
    /\ wk.pc \in {"idle", "exec", "panicked", "exited"}
    /\ wk.pc = "panicked" => ~GuiRecvOpen
    /\ wk.pc = "exited" => Senders = {}
    /\ (wk.pc = "idle" /\ Len(cmdQ) > 0) => ENABLED WorkerRecv

\* The second command, a GetDeviceInfo, has failed (it is executed and has
\* no result) and the worker executes the third.
C4_Witness ==
    /\ Len(hist) >= 3
    /\ hist[2].kind = "GetDeviceInfo"
    /\ Executed(2)
    /\ ~HasResult(2)
    /\ wk.pc = "exec"
    /\ wk.cmd.id = 3
    /\ uiStatus = "running"


\* The handshakes that fail: in the connection or in the property fetch.
FailedHandshakes ==
    {[status |-> "connect_failed", values |-> EmptyMap],
     [status |-> "fetch_failed", values |-> EmptyMap]}

\* C5: a step in which a GetDeviceInfo command meets a failed handshake adds
\* nothing to the result channel and leaves device_info as it was.
C5_FailedFetchInfoEmitsNothing ==
    [][\A h \in FailedHandshakes :
        (ExecGetDeviceInfoWith(h) /\ wk'.pc = "idle")
        => (resQ' = resQ /\ app'.device_info = app.device_info)]_vars

\* A device was selected, its GetDeviceInfo succeeded and its info is shown;
\* the device was selected again and the second GetDeviceInfo, the last
\* command, has failed: nothing has been received for it.
C5_Witness ==
    /\ Len(hist) = 3
    /\ hist[2].kind = "GetDeviceInfo" /\ hist[3].kind = "GetDeviceInfo"
    /\ Executed(3)
    /\ ~HasResult(3)
    /\ HasResult(2)
    /\ Len(resQ) = 0
    /\ Len(app.device_info) > 0
    /\ uiStatus = "running"

\* C6: a step in which an IORegistsry command ends adds exactly one
\* IORegistry result carrying the returned Option when the connection and
\* the query succeeded, and adds nothing and leaves current_ioregistry as it
\* was when either failed.
C6_RegistryResultOnlyOnSuccess ==
    [][(wk.pc = "exec" /\ wk.cmd.kind = "IORegistsry")
        => \A out \in RegistryOutcomes(wk.cmd) :
            (ExecIORegistsryWith(out) /\ wk'.pc = "idle")
            => IF out.status = "ok"
               THEN resQ' = Append(resQ, IORegistryMsg(wk.cmd.id, out.res))
               ELSE /\ resQ' = resQ
                    /\ app'.current_ioregistry = app.current_ioregistry]_vars

\* A registry query has filled current_ioregistry; the next one, the last
\* command, has failed and the snapshot is still there.
C6_Witness ==
    /\ Len(hist) = 4
    /\ hist[3].kind = "IORegistsry" /\ hist[4].kind = "IORegistsry"
    /\ Executed(4)
    /\ ~HasResult(4)
    /\ HasResult(3)
    /\ Len(resQ) = 0
    /\ Len(app.current_ioregistry) > 0
    /\ uiStatus = "running"

\* A registry query that succeeded with no document has emptied
\* current_ioregistry, which an earlier query had filled.
C6_WitnessAbsent ==
    /\ Len(hist) = 4
    /\ hist[3].kind = "IORegistsry" /\ hist[4].kind = "IORegistsry"
    /\ HasResult(4) /\ HasResult(3)
    /\ Len(resQ) = 0
    /\ Len(app.current_ioregistry) = 0

\* The devices of a list with a string DeviceName, given their handshakes.
NamedDevices(out) == {d \in Range(out.devs) : HasName(out.hs[d])}

\* The enumerations that return a device list.
ListedOutcomes == {out \in GetDevicesOutcomes : out.status = "ok"}

\* The roster the loop builds for each of them.
RosterOf == [out \in ListedOutcomes |-> RosterFrom(EmptyMap, out.devs, out.hs)]

\* Roster r holds only named devices of enumeration out: it maps names to
\* devices of the returned list whose handshake succeeded with that name as
\* their string DeviceName, and has at most as many entries as the list has
\* such devices.
OnlyNamedDevices(r, out) ==
    /\ \A n \in DOMAIN r :
        /\ r[n] \in NamedDevices(out)
        /\ out.hs[r[n]].values["DeviceName"].val = n
    /\ Cardinality(DOMAIN r) <= Cardinality(NamedDevices(out))

\* The rosters that hold only named devices of every enumeration that
\* builds them.
SoundRosters ==
    {r \in {RosterOf[out] : out \in ListedOutcomes} :
        \A out \in ListedOutcomes : RosterOf[out] = r => OnlyNamedDevices(r, out)}

\* C7: the roster a GetDevices execution emits is one the loop builds for an
\* enumeration, and it holds only named devices of every enumeration that
\* builds it.
C7_RosterHoldsOnlyNamedDevices ==
    [][(wk.pc = "exec" /\ wk.cmd.kind = "GetDevices" /\ wk'.pc = "idle"
        /\ resQ'[Len(resQ')].kind = "Devices")
        => resQ'[Len(resQ')].payload[1] \in SoundRosters]_vars

\* An enumeration that lists devA and devB, and meets devA without a string
\* DeviceName and devB with the name iPad.
EnumerationWithUnnamedDevice ==
    [status |-> "ok",
     devs |-> <<"devA", "devB">>,
     hs |-> [d \in {"devA", "devB"} |->
                IF d = "devA"
                THEN [status |-> "ok",
                      values |-> [k \in {"DeviceName", "BuildVersion"} |-> NotStr]]
                ELSE [status |-> "ok",
                      values |-> [k \in {"DeviceName", "ProductType", "UniqueDeviceID"} |->
                                    CASE k = "DeviceName" -> Str("iPad")
                                      [] k = "ProductType" -> Str("iPhone15,2")
                                      [] OTHER -> Str(d)]]]]

\* The worker executes a refresh that meets EnumerationWithUnnamedDevice:
\* the roster it emits holds devB alone.
C7_Witness ==
    /\ wk.pc = "exec" /\ wk.cmd.kind = "GetDevices" /\ wk.cmd.id > 1
    /\ EnumerationWithUnnamedDevice \in GetDevicesOutcomes
    /\ ENABLED (/\ ExecGetDevicesWith(EnumerationWithUnnamedDevice)
                /\ Len(resQ') = Len(resQ) + 1
                /\ resQ'[Len(resQ')].kind = "Devices"
                /\ DOMAIN resQ'[Len(resQ')].payload[1] = {"iPad"})


\* The Filter Triple of the three fields of a: absent for an empty field,
\* the text of the field otherwise.
TripleOf(a) ==
    [f \in {"plane", "entry", "class"} |-> IF a[f] = "" THEN <<>> ELSE <<a[f]>>]

\* A frame in which the user changes the text of one of the filter fields.
FilterEdit ==
    \/ \E v \in PlaneValues : EditPlane(v)
    \/ \E v \in EntryValues : EditEntry(v)
    \/ \E v \in ClassValues : EditClass(v)

\* C8: a frame in which the text of a filter field changes appends exactly
\* one command to the command channel: an IORegistsry for the selected
\* device whose plane, entry and class are the three fields after the edit,
\* absent where the field is empty and the field's text otherwise.
C8_FilterEditEnqueuesNormalisedTriple ==
    [][FilterEdit
        => /\ Len(cmdQ') = Len(cmdQ) + 1
           /\ SubSeq(cmdQ', 1, Len(cmdQ)) = cmdQ
           /\ LET c == cmdQ'[Len(cmdQ')] IN
              /\ c.kind = "IORegistsry"
              /\ c.dev = Some(app'.devices[1][app'.selected_device])
              /\ \A f \in {"plane", "entry", "class"} : c[f] = TripleOf(app')[f]
           /\ Cardinality({f \in {"plane", "entry", "class"} :
                             app'[f] # Polled[f]}) = 1]_vars

\* The plane was set to IOPower and then the entry to Root: the command
\* channel holds (IOPower, absent, absent) and behind it (IOPower, Root,
\* absent).
C8_Witness ==
    /\ Len(cmdQ) >= 2
    /\ LET c == cmdQ[Len(cmdQ) - 1]
           d == cmdQ[Len(cmdQ)]
       IN  /\ c.kind = "IORegistsry" /\ d.kind = "IORegistsry"
           /\ c.plane = <<"IOPower">> /\ c.entry = <<>> /\ c.class = <<>>
           /\ d.plane = <<"IOPower">> /\ d.entry = <<"Root">> /\ d.class = <<>>

\* The device_info vectors a successful GetDeviceInfo of dev can emit.
InfoOf(dev) == {Some(BuildInfo(v)) : v \in LockdownValueSets(dev)}

\* The last two commands are GetDeviceInfo commands of two different
\* devices, the second was sent before a result of the first was received,
\* the worker has executed both and the UI has drained the result channel.
TwoSelectionsDrained ==
    /\ Len(hist) >= 3
    /\ hist[Len(hist) - 1].kind = "GetDeviceInfo"
    /\ hist[Len(hist)].kind = "GetDeviceInfo"
    /\ hist[Len(hist) - 1].dev # hist[Len(hist)].dev
    /\ \A i \in 1..Len(recvLog) :
        recvLog[i].id = Len(hist) - 1 => recvLog[i].late
    /\ Executed(Len(hist) - 1) /\ Executed(Len(hist))
    /\ Len(resQ) = 0
    /\ uiStatus = "running"

\* C9, as stated: after two selections of different devices, the second made
\* before the first result was received, and once both commands are executed
\* and the result channel is drained, device_info is an info of the device
\* selected last.
C9_LastSelectionWins ==
    TwoSelectionsDrained => app.device_info \in InfoOf(hist[Len(hist)].dev[1])

\* C9, amended: in that state device_info is an info of the device selected
\* last when the last GetDeviceInfo emitted a result; when it emitted none,
\* device_info is absent or an info of a device of an earlier GetDeviceInfo
\* that emitted a result.
C9_LastResultWins ==
    TwoSelectionsDrained
    => LET n == Len(hist) IN
       IF HasResult(n)
       THEN app.device_info \in InfoOf(hist[n].dev[1])
       ELSE \/ app.device_info = None
            \/ \E k \in 1..(n - 1) :
                /\ hist[k].kind = "GetDeviceInfo"
                /\ HasResult(k)
                /\ app.device_info \in InfoOf(hist[k].dev[1])

\* Both GetDeviceInfo commands have emitted a result, the first was received
\* after the second selection, and device_info names the device selected
\* last in its UDID row.
C9_Witness ==
    /\ TwoSelectionsDrained
    /\ HasResult(Len(hist) - 1) /\ HasResult(Len(hist))
    /\ Len(app.device_info) > 0
    /\ \E i \in 1..Len(app.device_info[1]) :
        app.device_info[1][i] = <<"UDID", hist[Len(hist)].dev[1]>>

\* C10, as stated: a frame in which Save to File is clicked and a path is
\* chosen while current_ioregistry is None writes no file and leaves the
\* application running.
C10_SaveWithoutSnapshotIsNoOp ==
    [][(SaveToFile(Some(SavePath)) /\ Len(Polled.current_ioregistry) = 0)
        => (file' = file /\ uiStatus' = "running")]_vars

\* The fields of MyApp that the UI shows.
AppFields ==
    {"devices", "devices_placeholder", "selected_device", "device_info",
     "current_ioregistry", "save_error", "plane", "entry", "class"}

\* C11: a step removes at most one result from the result channel, the
\* oldest, however many are queued; a frame without input that finds the
\* channel empty leaves every field of MyApp unchanged.
C11_PollTakesAtMostOne ==
    [][/\ Len(resQ') >= Len(resQ) - 1
       /\ Len(resQ') < Len(resQ) => resQ' = Tail(resQ)
       /\ (Len(resQ) = 0 /\ UpdateIdle) => app' = app]_vars

\* The UI has received a result, three more are queued, and the next frame
\* takes the oldest of them and leaves the other two.
C11_Witness ==
    /\ Len(recvLog) >= 1
    /\ Len(resQ) = 3
    /\ uiStatus = "running"
    /\ ENABLED (UpdateIdle /\ resQ' = Tail(resQ) /\ Len(resQ') = 2)

\* C12: a frame without input that receives a result overwrites the field
\* of the result's kind with the payload and leaves every other field as it
\* was: Devices sets devices to exactly the new roster, DeviceInfo sets
\* device_info, IORegistry sets current_ioregistry, to None when the result
\* carries None.
C12_ResultOverwritesItsField ==
    [][(UpdateIdle /\ Len(resQ) > 0)
        => LET msg == Head(resQ)
               field == CASE msg.kind = "Devices" -> "devices"
                          [] msg.kind = "DeviceInfo" -> "device_info"
                          [] msg.kind = "IORegistry" -> "current_ioregistry"
                          [] OTHER -> "devices_placeholder"
           IN  /\ \A f \in AppFields \ {field} : app'[f] = app[f]
               /\ msg.kind \in {"Devices", "DeviceInfo", "IORegistry"}
                    => app'[field] = msg.payload]_vars

\* The roster shown names iPhone, the oldest queued result is a roster that
\* names iPad alone, and the frame that receives it leaves iPad alone.
C12_Witness ==
    /\ uiStatus = "running"
    /\ Len(app.devices) > 0
    /\ "iPhone" \in DOMAIN app.devices[1]
    /\ Len(resQ) > 0
    /\ resQ[1].kind = "Devices"
    /\ DOMAIN resQ[1].payload[1] = {"iPad"}
    /\ ENABLED (UpdateIdle /\ DOMAIN app'.devices[1] = {"iPad"})

\* C13: the UI panics with "idevice crashed" only in a frame that finds the
\* result channel empty and the worker task ended, and such a frame always
\* does; while results are queued behind an ended worker each frame receives
\* the oldest of them; once the UI has panicked it applies and receives
\* nothing more.
C13_DisconnectIsFatalAfterDrain ==
    [][/\ (uiStatus = "running" /\ uiStatus' = PanicDisconnected)
            => (Len(resQ) = 0 /\ ~WorkerAlive /\ app' = app)
       /\ (uiStatus = "running" /\ ~WorkerAlive /\ UI)
            => IF Len(resQ) = 0
               THEN uiStatus' = PanicDisconnected
               ELSE /\ resQ' = Tail(resQ)
                    /\ Len(recvLog') = Len(recvLog) + 1
                    /\ recvLog'[Len(recvLog')].id = Head(resQ).id
                    /\ uiStatus' # PanicDisconnected
       /\ uiStatus # "running"
            => (uiStatus' = uiStatus /\ app' = app /\ recvLog' = recvLog)]_vars

\* The worker ended while it executed the third command; the results of the
\* first two were received and the UI then panicked on the empty channel.
C13_Witness ==
    /\ uiStatus = PanicDisconnected
    /\ wk.pc = "panicked"
    /\ inflight = {3}
    /\ Len(recvLog) = 2
    /\ Len(resQ) = 0

\* C14, as stated: after a frame applies a NoUsbmuxd result the device panel
\* shows the usbmuxd failure text, whether or not a roster was present, and
\* it keeps showing it for as long as no result of a later enumeration is
\* applied.
C14_NoUsbmuxdIsDisplayed ==
    [][/\ (UI /\ Len(resQ) > 0 /\ Head(resQ).kind = "NoUsbmuxd")
            => DevicePanel(app') = [shows |-> "placeholder", text |-> NoUsbmuxdText]
       /\ (/\ DevicePanel(app) = [shows |-> "placeholder", text |-> NoUsbmuxdText]
           /\ ~(Len(resQ) > 0 /\ Head(resQ).kind \in EnumerationKinds))
            => DevicePanel(app') = DevicePanel(app)]_vars

\* Command k waits in the command channel.
Queued(k) == \E i \in 1..Len(cmdQ) : cmdQ[i].id = k

\* The worker has taken command k and is executing it.
Executing(k) == wk.pc = "exec" /\ wk.cmd.id = k

\* C15: the command channel changes only by a send at its tail or by the
\* worker taking its head, so no queued command is cancelled, skipped or
\* moved behind a later one; and with a fairly scheduled worker every queued
\* command is eventually taken by the worker and its execution eventually
\* ends, unless the UI thread has panicked and the process is going down.
C15_EveryCommandIsExecuted ==
    /\ [][\/ cmdQ' = cmdQ
          \/ Len(cmdQ') = Len(cmdQ) + 1 /\ SubSeq(cmdQ', 1, Len(cmdQ)) = cmdQ
          \/ /\ Len(cmdQ) > 0
             /\ cmdQ' = Tail(cmdQ)
             /\ wk'.pc = "exec"
             /\ wk'.cmd = Head(cmdQ)]_vars
    /\ \A k \in 1..MaxCmds :
        /\ Queued(k) ~> (Executing(k) \/ uiStatus # "running")
        /\ Executing(k) ~> (Executed(k) \/ uiStatus # "running")

\* Four commands were sent, the second was still unanswered when a later one
\* was sent, and the worker has executed all four while the UI runs.
C15_Witness ==
    /\ Len(hist) = MaxCmds
    /\ \A k \in 1..MaxCmds : Executed(k)
    /\ \E i \in 1..Len(recvLog) : recvLog[i].late
    /\ uiStatus = "running"

\* The last two commands are IORegistsry commands, the worker has executed
\* every command and the UI has drained the result channel.
QueriesDrained ==
    /\ Len(hist) >= 3
    /\ hist[Len(hist) - 1].kind = "IORegistsry"
    /\ hist[Len(hist)].kind = "IORegistsry"
    /\ \A k \in 1..Len(hist) : Executed(k)
    /\ Len(resQ) = 0
    /\ uiStatus = "running"

\* What a successful query with the final values of the three filter fields
\* returns: no document, or the document of that query.
LastQueryResults ==
    {None,
     Some(RegistryDoc(hist[Len(hist)].dev[1],
                      TripleOf(app).plane, TripleOf(app).entry, TripleOf(app).class))}

C17_SelectionClearsInfoAndFetches ==
    [][\A name \in DeviceNames :
        SelectDevice(name)
        => /\ app'.selected_device = name
           /\ app'.device_info = None
           /\ Len(cmdQ') = Len(cmdQ) + 1
           /\ SubSeq(cmdQ', 1, Len(cmdQ)) = cmdQ
           /\ LET c == cmdQ'[Len(cmdQ')] IN
              /\ c.kind = "GetDeviceInfo"
              /\ c.dev = Some(Polled.devices[1][name])
              /\ c.id = Len(hist) + 1
           /\ \A f \in AppFields \ {"selected_device", "device_info"} :
                app'[f] = Polled[f]]_vars

\* The info of a first selection was received and a registry document is
\* shown; iPad was then selected: device_info is None again, the document
\* is still shown and the GetDeviceInfo of devB is the newest queued command.
C17_Witness ==
    /\ Len(hist) = MaxCmds
    /\ hist[2].kind = "GetDeviceInfo"
    /\ \E i \in 1..Len(recvLog) : recvLog[i].id = 2
    /\ Len(app.current_ioregistry) > 0
    /\ app.plane = "IOPower"
    /\ app.selected_device = "iPad"
    /\ app.device_info = None
    /\ Len(cmdQ) = 1
    /\ cmdQ[1].kind = "GetDeviceInfo" /\ cmdQ[1].dev = <<"devB">> /\ cmdQ[1].id = MaxCmds

\* The fixed key order of the device info and the label shown for each key.
InfoKeyOrder ==
    <<"DeviceName", "ProductType", "ProductVersion", "BuildVersion", "UniqueDeviceID">>

InfoLabel ==
    [k \in Range(InfoKeyOrder) |->
        CASE k = "DeviceName" -> "Device Name"
          [] k = "ProductType" -> "Model"
          [] k = "ProductVersion" -> "iOS Version"
          [] k = "BuildVersion" -> "Build Number"
          [] OTHER -> "UDID"]

\* What the dictionary pl holds under key k.
Lookup(pl, k) ==
    IF \E i \in DOMAIN pl : pl[i][1] = k
    THEN pl[CHOOSE i \in DOMAIN pl : pl[i][1] = k][2]
    ELSE Absent

\* The (label, value) pairs of the keys of InfoKeyOrder that pl holds with a
\* string value, in the order of InfoKeyOrder.
ExpectedInfo(pl) ==
    LET keys == SelectSeq(InfoKeyOrder, LAMBDA k : Lookup(pl, k).type = "String")
    IN  [i \in 1..Len(keys) |-> <<InfoLabel[keys[i]], Lookup(pl, keys[i]).val>>]

C18_WitnessEmpty ==
    /\ Len(resQ) = 0
    /\ \E i \in 1..Len(recvLog) : recvLog[i].id = 2
    /\ app.device_info = Some(<<>>)

\* C19: while devices is None the only command ever sent is the startup
\* GetDevices; and once that command has been executed and its result
\* received with devices still None (the enumeration failed), no step sends
\* a command or makes the roster present.
C19_NoCommandWithoutRoster ==
    /\ [](Len(app.devices) = 0 => hist = <<Sent(GetDevicesCmd(1))>>)
    /\ [][(Len(app.devices) = 0 /\ Executed(1) /\ Len(resQ) = 0)
            => (hist' = hist /\ cmdQ' = cmdQ /\ app'.devices = None)]_vars

\* The startup enumeration failed and its result was applied: the
\* placeholder tells so, the roster is absent and nothing else was sent.
C19_Witness ==
    /\ Len(app.devices) = 0
    /\ app.devices_placeholder \in {NoUsbmuxdText, GetDevicesFailureText}
    /\ Len(hist) = 1
    /\ Len(cmdQ) = 0 /\ Len(resQ) = 0
    /\ wk.pc = "idle"
    /\ uiStatus = "running"

\* C20: no step makes a present roster absent; a frame without input that
\* receives a GetDevicesFailure or NoUsbmuxd result sets devices_placeholder
\* to the text of that failure and leaves the roster, selected_device,
\* device_info, current_ioregistry and every other field as they were.
C20_RosterStaysPresent ==
    [][/\ Len(app.devices) > 0 => Len(app'.devices) > 0
       /\ (/\ Len(resQ) > 0
           /\ Head(resQ).kind \in {"GetDevicesFailure", "NoUsbmuxd"}
           /\ UpdateIdle)
            => /\ \A f \in AppFields \ {"devices_placeholder"} : app'[f] = app[f]
               /\ app'.devices_placeholder =
                    IF Head(resQ).kind = "NoUsbmuxd"
                    THEN NoUsbmuxdText ELSE GetDevicesFailureText]_vars

\* A roster is present, a device of it is selected and its info shown; a
\* later refresh has failed and its result was applied: the placeholder
\* holds the failure text and roster, selection and info are still there.
C20_Witness ==
    /\ Len(app.devices) > 0
    /\ app.selected_device \in DOMAIN app.devices[1]
    /\ Len(app.device_info) > 0
    /\ app.devices_placeholder \in {NoUsbmuxdText, GetDevicesFailureText}
    /\ Len(resQ) = 0
    /\ uiStatus = "running"

\* The step sends a command of kind k: the newest entry of the command
\* channel is that command.
Sends(k) ==
    /\ Len(hist') = Len(hist) + 1
    /\ hist'[Len(hist')].kind = k

\* Every command is sent with a device of the roster the sending frame holds
\* after its poll: an IORegistsry only when selected_device is a name of
\* that roster, with the device the roster holds under it; a GetDeviceInfo
\* with a device the roster holds under some name.
CommandsCarryRosterDevices ==
    /\ Sends("IORegistsry")
        => /\ Len(Polled.devices) > 0
           /\ Polled.selected_device \in DOMAIN Polled.devices[1]
           /\ cmdQ'[Len(cmdQ')].dev =
                Some(Polled.devices[1][Polled.selected_device])
    /\ Sends("GetDeviceInfo")
        => /\ Len(Polled.devices) > 0
           /\ \E n \in DOMAIN Polled.devices[1] :
                cmdQ'[Len(cmdQ')].dev = Some(Polled.devices[1][n])

\* The frame applies a roster that holds the selected name.
RosterRestoresSelection ==
    /\ Len(resQ) > 0
    /\ Head(resQ).kind = "Devices"
    /\ app.selected_device \in DOMAIN Head(resQ).payload[1]
    /\ resQ' = Tail(resQ)
    /\ Len(recvLog') = Len(recvLog) + 1

\* C21, as stated: commands carry devices of the current roster, and once
\* selected_device is no name of the roster the filter panel, the only
\* place an IORegistsry is sent from, stays hidden until a device is
\* selected.
C21_FilterPanelNeedsSelection ==
    [][/\ CommandsCarryRosterDevices
       /\ (~FilterPanelShown(app) /\ ~Sends("GetDeviceInfo"))
            => ~FilterPanelShown(app')]_vars

\* C21, amended: commands carry devices of the current roster, and once
\* selected_device is no name of the roster the filter panel stays hidden
\* until a device is selected or a roster that holds the selected name is
\* applied.
C21_FilterPanelNeedsNameInRoster ==
    [][/\ CommandsCarryRosterDevices
       /\ (~FilterPanelShown(app) /\ ~Sends("GetDeviceInfo")
           /\ ~RosterRestoresSelection)
            => ~FilterPanelShown(app')
       /\ (~FilterPanelShown(app) /\ ~Sends("GetDeviceInfo")
           /\ RosterRestoresSelection /\ uiStatus' = "running")
            => FilterPanelShown(app')]_vars

\* iPhone was selected and a registry query sent for it; a refresh then
\* brought a roster without iPhone: the selection is kept and the filter
\* panel is hidden.
C21_Witness ==
    /\ Len(hist) = MaxCmds
    /\ hist[2].kind = "GetDeviceInfo"
    /\ hist[3].kind = "IORegistsry"
    /\ hist[4].kind = "GetDevices"
    /\ Len(resQ) = 0 /\ Len(cmdQ) = 0 /\ wk.pc = "idle"
    /\ HasResult(4)
    /\ Len(app.devices) > 0
    /\ app.selected_device = "iPhone"
    /\ "iPhone" \notin DOMAIN app.devices[1]
    /\ ~FilterPanelShown(app)
    /\ uiStatus = "running"

\* A GetDeviceInfo of device dev waits in the command channel or is being
\* executed.
InfoPending(dev) ==
    \/ \E i \in 1..Len(cmdQ) :
        cmdQ[i].kind = "GetDeviceInfo" /\ cmdQ[i].dev = Some(dev)
    \/ wk.pc = "exec" /\ wk.cmd.kind = "GetDeviceInfo" /\ wk.cmd.dev = Some(dev)

\* C22: a frame that receives a DeviceInfo result applies it whatever
\* selected_device and device_info are: after the frame device_info is the
\* payload, unless the same frame's click on a device has set it to None.
C22_InfoAppliedRegardlessOfSelection ==
    [][(/\ Len(resQ) > 0
        /\ Head(resQ).kind = "DeviceInfo"
        /\ resQ' = Tail(resQ))
        => \/ app'.device_info = Head(resQ).payload
           \/ Sends("GetDeviceInfo") /\ app'.device_info = None]_vars

\* iPad, which the roster maps to devB, is selected and its GetDeviceInfo is
\* still pending, while device_info shows the info of devA, selected before.
C22_Witness ==
    /\ uiStatus = "running"
    /\ Len(app.devices) > 0
    /\ app.selected_device = "iPad"
    /\ "iPad" \in DOMAIN app.devices[1]
    /\ app.devices[1]["iPad"] = "devB"
    /\ InfoPending("devB")
    /\ Len(app.device_info) > 0
    /\ \E i \in 1..Len(app.device_info[1]) :
        app.device_info[1][i] = <<"UDID", "devA">>

\* The same with the GetDeviceInfo of devB failed: nothing is pending or
\* queued and device_info keeps showing the info of devA.
C22_WitnessFailed ==
    /\ uiStatus = "running"
    /\ Len(app.devices) > 0
    /\ app.selected_device = "iPad"
    /\ "iPad" \in DOMAIN app.devices[1]
    /\ app.devices[1]["iPad"] = "devB"
    /\ Len(cmdQ) = 0 /\ Len(resQ) = 0 /\ wk.pc = "idle"
    /\ hist[Len(hist)] = [kind |-> "GetDeviceInfo", dev |-> Some("devB")]
    /\ ~HasResult(Len(hist))
    /\ Len(app.device_info) > 0
    /\ \E i \in 1..Len(app.device_info[1]) :
        app.device_info[1][i] = <<"UDID", "devA">>

\* C23: at startup the command channel holds one GetDevices and nothing
\* else, the worker has taken nothing, and devices, device_info and
\* current_ioregistry are None; the first command the worker takes is that
\* GetDevices, and the first result the UI receives is of that command and
\* is Devices, GetDevicesFailure or NoUsbmuxd.
C23_StartupEnumeratesFirst ==
    /\ cmdQ = <<GetDevicesCmd(1)>>
    /\ wk.pc = "idle" /\ inflight = {} /\ resQ = <<>> /\ recvLog = <<>>
    /\ app.devices = None
    /\ app.device_info = None
    /\ app.current_ioregistry = None
    /\ [][/\ (~Executed(1) /\ wk.pc = "idle" /\ wk'.pc = "exec")
               => wk'.cmd = GetDevicesCmd(1)
          /\ (Len(recvLog) = 0 /\ Len(recvLog') > 0)
               => /\ Head(resQ).id = 1
                  /\ Head(resQ).kind \in EnumerationKinds
                  /\ recvLog'[1].id = 1]_vars

\* The first result has been received: it is the roster of the startup
\* enumeration, and nothing else has been sent or shown yet.
C23_Witness ==
    /\ Len(recvLog) = 1
    /\ recvLog[1].id = 1
    /\ Len(hist) = 1
    /\ Len(app.devices) > 0
    /\ app.device_info = None
    /\ app.current_ioregistry = None
    /\ uiStatus = "running"

====
